---- MODULE Spec2Model ----
(***************************************************************************)
(* State-machine model of the operator console front end:                  *)
(*   App          (task selection, task-detail fetch)                      *)
(*   TaskDetail   (result / report fetches, single-task run, tabs)         *)
(*   BatchControl (batch start / stop, status polling on a 2000 ms timer)  *)
(* Every `await fetch(...)` is a suspension point: the request is put in   *)
(* flight and the continuation of the async function runs when the reply   *)
(* is delivered.  Replies are delivered in any order.                      *)
(***************************************************************************)
EXTENDS Naturals, FiniteSets, Sequences

\* ------------------------------------------------------------------ bounds
\* User operations on App/TaskDetail (task selections, run clicks, refresh
\* signals) in one behaviour.
MaxOps == 3
\* Requests BatchControl may issue in one behaviour.
MaxBReq == 5
\* Number of tasks in the backend's batch.
BatchTotal == 2

\* Longest patch text given to PatchViewer, in characters.
MaxPatchLen == 5

\* ------------------------------------------------------------ value spaces
Tasks == {"A", "B"}
NoTask == "none"

Tabs == {"details", "result", "report"}

\* How a request can settle, decided by the backend and the network when the
\* reply is delivered: a 2xx reply with the data, a 2xx reply whose data field
\* is null / missing, a non-2xx reply, a rejected fetch().
Outcomes(kind) ==
  IF kind \in {"result", "report"} THEN {"ok", "null", "http", "neterr"}
  ELSE {"ok", "http", "neterr"}

\* error.message of a rejected fetch()
NetErrMsg == "Failed to fetch"
RunHttpMsg == "Failed to run task"
DetailHttpMsg == "Failed to fetch task details"
NoError == "null"

\* A held RunResult: where it came from.  req, task and epoch identify the
\* /results fetch that delivered it; detail is the message of a synthesized
\* error result.
NoResult == [kind |-> "none", req |-> 0, task |-> NoTask, epoch |-> 0, detail |-> ""]
\* detailData.result of the reply to request r
FetchedResult(r) ==
  [kind |-> "fetched", req |-> r.id, task |-> r.task, epoch |-> r.epoch, detail |-> ""]
ErrorResultDropped(msg) == NoResult
\* { status: 'error', detail: error.message }
ErrorResult(msg) ==
  [kind |-> "error", req |-> 0, task |-> NoTask, epoch |-> 0, detail |-> msg]

\* A held ReportText: the content of a /batch/report reply, tagged with the
\* number of handleRun calls made before its request was issued.
NoReport == [present |-> FALSE, epoch |-> 0]
FetchedReport(e) == [present |-> TRUE, epoch |-> e]

\* BatchControl's status before the first payload: useState(null)
NoStatus == [present |-> FALSE, is_running |-> FALSE, processed |-> 0, total |-> 0]

VARIABLES
  \* App
  selectedTask,   \* id of selectedTask, or NoTask
  taskDetail,     \* task id the held TaskDetail was fetched for, or NoTask
  appError,       \* App's error banner
  detailReqs,     \* fetchTaskDetail requests in flight, per task id
  \* TaskDetail
  result,         \* held RunResult
  reportText,     \* held ReportText
  running,        \* busy flag
  activeTab,
  refreshTrigger,
  runPc,          \* where handleRun is suspended: idle, trigger, result, report
  runTask,        \* task.id captured by the handleRun closure
  runWait,        \* id of the /results request handleRun awaits
  runs,           \* handleRun calls so far
  runReqs,        \* POST /run requests in flight
  resultReqs,     \* GET /results/{id} requests in flight
  reportReqs,     \* GET /batch/report requests in flight that no handleRun
                  \* awaits, per epoch of issue
  nextId,         \* id of the next /results request
  ops,            \* user operations so far
  \* BatchControl
  status,         \* held BatchStatus payload, or NoStatus
  loading,        \* BatchControl's loading flag
  bcMounted,      \* BatchControl is mounted
  interval,       \* the setInterval timer of the polling effect is live
  startPc,        \* where handleStart is suspended: idle, start, status
  startWait,      \* id of the request handleStart awaits
  binflight,      \* requests of BatchControl not yet delivered
  nextBid,
  stoppedSeen,    \* history: a payload with is_running=false was applied and no
                  \* start has been acknowledged since
  startAcked,     \* history: the last POST /batch/start was answered 2xx
  pollFailed,     \* history: the last status reply delivered was a failed
                  \* timer poll that found the poller Running
  \* the backend's batch job
  srv,
  \* PatchViewer
  patch,          \* the patch prop
  rendered        \* what PatchViewer returned for it

avars == <<selectedTask, taskDetail, appError, detailReqs>>

dvars == <<result, reportText, running, activeTab, refreshTrigger, runPc, runTask,
           runWait, runs, runReqs, resultReqs, reportReqs, nextId>>

tvars == <<avars, dvars, ops>>

bvars == <<status, loading, bcMounted, interval, startPc, startWait, binflight,
           nextBid, stoppedSeen, startAcked, pollFailed, srv>>

pvars == <<patch, rendered>>

vars == <<tvars, bvars, pvars>>

Epochs == 0..(MaxOps + 1)

\* A /results request in flight: the task.id the fetchLatestResult closure
\* captured, and the number of handleRun calls made before it was issued.
ResultReq(id, task) == [id |-> id, task |-> task, epoch |-> runs]

\* TaskDetail is rendered only when selectedTask && taskDetail
tdMounted == selectedTask # NoTask /\ taskDetail # NoTask

\* The user may still act.
Room == ops < MaxOps

InitTask ==
  /\ selectedTask = NoTask
  /\ taskDetail = NoTask
  /\ appError = NoError
  /\ detailReqs = [t \in Tasks |-> 0]
  /\ result = NoResult
  /\ reportText = NoReport
  /\ running = FALSE
  /\ activeTab = "details"
  /\ refreshTrigger = 0
  /\ runPc = "idle"
  /\ runTask = NoTask
  /\ runWait = 0
  /\ runs = 0
  /\ runReqs = 0
  /\ resultReqs = {}
  /\ reportReqs = [e \in Epochs |-> 0]
  /\ nextId = 1
  /\ ops = 0

\* A BatchControl request: src tells which code path called fetch; handled
\* and data hold what the backend has answered so far.
BReq(id, kind, src) ==
  [id |-> id, kind |-> kind, src |-> src, handled |-> FALSE, data |-> NoStatus]

\* BatchControl after mount: both effects have run, so the timer is live and
\* the mount fetchStatus() is in flight.  The backend's batch may or may not
\* be running already.
InitBatch ==
  /\ status = NoStatus
  /\ loading = FALSE
  /\ bcMounted = TRUE
  /\ interval = TRUE
  /\ startPc = "idle"
  /\ startWait = 0
  /\ binflight = {BReq(1, "status", "mount")}
  /\ nextBid = 2
  /\ stoppedSeen = FALSE
  /\ startAcked = FALSE
  /\ pollFailed = FALSE
  /\ srv \in {[present |-> TRUE, is_running |-> b, processed |-> 0, total |-> BatchTotal] :
               b \in BOOLEAN}

\* ------------------------------------------------------------------- App
\* handleTaskSelect(task): setSelectedTask, then fetchTaskDetail(task.id) up
\* to its await (setLoading(true) is left out: App never reads `loading`);
\* when TaskDetail is mounted and task.id changed, its selection effect runs:
\* setResult(null), setActiveTab('details'), fetchLatestResult(),
\* fetchSummaryReport().  fetchLatestResult is rebuilt for the new task.id
\* and is a dependency of the refresh effect too, so that effect runs as
\* well and fetches a second time when refreshTrigger > 0.
HandleTaskSelect(t) ==
  /\ t \in Tasks
  /\ Room
  /\ ops' = ops + 1
  /\ selectedTask' = t
  /\ appError' = NoError
  /\ detailReqs' = [detailReqs EXCEPT ![t] = @ + 1]
  /\ IF tdMounted /\ t # selectedTask
       THEN LET n == IF refreshTrigger > 0 THEN 2 ELSE 1 IN
            /\ result' = NoResult
            /\ activeTab' = "details"
            /\ resultReqs' = resultReqs \cup {ResultReq(nextId + i, t) : i \in 0..(n - 1)}
            /\ reportReqs' = [reportReqs EXCEPT ![runs] = @ + n]
            /\ nextId' = nextId + n
       ELSE UNCHANGED <<result, activeTab, resultReqs, reportReqs, nextId>>
  /\ UNCHANGED <<taskDetail, reportText, running, refreshTrigger, runPc, runTask, runWait,
                 runs, runReqs>>

\* err.message caught by fetchTaskDetail
DetailFailureMessage(o) == IF o = "http" THEN DetailHttpMsg ELSE NetErrMsg

\* fetchTaskDetail(t) after the await: setTaskDetail(data) on 2xx, otherwise
\* setError(err.message).  When the reply makes `selectedTask && taskDetail`
\* true for the first time TaskDetail mounts and its selection effect runs
\* for the task selected at that moment.
DetailResponse(t, o) ==
  /\ t \in Tasks
  /\ detailReqs[t] > 0
  /\ o \in Outcomes("detail")
  /\ detailReqs' = [detailReqs EXCEPT ![t] = @ - 1]
  /\ IF o = "ok"
       THEN /\ taskDetail' = t
            /\ appError' = appError
            /\ IF taskDetail = NoTask
                 THEN /\ result' = NoResult
                      /\ activeTab' = "details"
                      /\ resultReqs' = resultReqs \cup {ResultReq(nextId, selectedTask)}
                      /\ reportReqs' = [reportReqs EXCEPT ![runs] = @ + 1]
                      /\ nextId' = nextId + 1
                 ELSE UNCHANGED <<result, activeTab, resultReqs, reportReqs, nextId>>
       ELSE /\ appError' = DetailFailureMessage(o)
            /\ UNCHANGED <<taskDetail, result, activeTab, resultReqs, reportReqs, nextId>>
  /\ UNCHANGED <<selectedTask, reportText, running, refreshTrigger, runPc, runTask, runWait,
                 runs, runReqs, ops>>

\* ------------------------------------------------------------ TaskDetail
\* fetchLatestResult calling setResult(detailData.result) for every reply:
\* an absent or failed result empties the store.
ApplyResultAlways(r, o, cur) == IF o = "ok" THEN FetchedResult(r) ELSE NoResult

\* fetchLatestResult after the await: setResult only for a 2xx reply whose
\* result field is present.
ApplyResult(r, o, cur) == IF o = "ok" THEN FetchedResult(r) ELSE cur

\* fetchSummaryReport after the await: setReportText only for a 2xx reply
\* whose content field is present.
ApplyReport(e, o, cur) == IF o = "ok" THEN FetchedReport(e) ELSE cur

\* A /results reply is delivered; if handleRun awaits it, handleRun goes on
\* to `await fetchSummaryReport()`.
ResultResponse(r, o) ==
  /\ r \in resultReqs
  /\ o \in Outcomes("result")
  /\ result' = ApplyResult(r, o, result)
  /\ resultReqs' = resultReqs \ {r}
  /\ IF runPc = "result" /\ runWait = r.id
       THEN /\ runPc' = "report"
            /\ runWait' = 0
       ELSE UNCHANGED <<runPc, runWait>>
  /\ UNCHANGED <<avars, reportText, running, activeTab, refreshTrigger, runTask, runs,
                 runReqs, reportReqs, nextId, ops>>

\* A /batch/report reply is delivered to a fetchSummaryReport() that an
\* effect called.
ReportResponse(e, o) ==
  /\ e \in Epochs
  /\ reportReqs[e] > 0
  /\ o \in Outcomes("report")
  /\ reportReqs' = [reportReqs EXCEPT ![e] = @ - 1]
  /\ reportText' = ApplyReport(e, o, reportText)
  /\ UNCHANGED <<avars, result, running, activeTab, refreshTrigger, runPc, runTask, runWait,
                 runs, runReqs, resultReqs, nextId, ops>>

\* A /batch/report reply is delivered to the fetchSummaryReport() handleRun
\* awaits; handleRun finishes: setActiveTab('result'), finally
\* setRunning(false).
RunReportResponse(o) ==
  /\ runPc = "report"
  /\ o \in Outcomes("report")
  /\ reportText' = ApplyReport(runs, o, reportText)
  /\ activeTab' = "result"
  /\ running' = FALSE
  /\ runPc' = "idle"
  /\ runTask' = NoTask
  /\ UNCHANGED <<avars, result, refreshTrigger, runWait, runs, runReqs, resultReqs,
                 reportReqs, nextId, ops>>

\* refresh effect: the refreshTrigger prop changed and is > 0
Refresh ==
  /\ tdMounted
  /\ Room
  /\ ops' = ops + 1
  /\ refreshTrigger' = refreshTrigger + 1
  /\ resultReqs' = resultReqs \cup {ResultReq(nextId, selectedTask)}
  /\ reportReqs' = [reportReqs EXCEPT ![runs] = @ + 1]
  /\ nextId' = nextId + 1
  /\ UNCHANGED <<avars, result, reportText, running, activeTab, runPc, runTask, runWait,
                 runs, runReqs>>

RunButtonAlwaysEnabled == TRUE
\* <button className="run-button" ... disabled={running}>
RunButtonEnabled == ~running

\* handleRun with the trigger fetch not awaited: the follow-up
\* fetchLatestResult() goes out together with POST /run.
HandleRunNoAwait ==
  /\ tdMounted
  /\ RunButtonEnabled
  /\ Room
  /\ ops' = ops + 1
  /\ running' = TRUE
  /\ result' = NoResult
  /\ reportText' = NoReport
  /\ runReqs' = runReqs + 1
  /\ runs' = runs + 1
  /\ runPc' = "trigger"
  /\ runTask' = selectedTask
  /\ resultReqs' = resultReqs \cup {ResultReq(nextId, selectedTask)}
  /\ nextId' = nextId + 1
  /\ runWait' = nextId
  /\ UNCHANGED <<avars, activeTab, refreshTrigger, reportReqs>>

\* handleRun up to its first await
HandleRun ==
  /\ tdMounted
  /\ RunButtonEnabled
  /\ Room
  /\ ops' = ops + 1
  /\ running' = TRUE
  /\ result' = NoResult
  /\ reportText' = NoReport
  /\ runReqs' = runReqs + 1
  /\ runs' = runs + 1
  /\ runPc' = "trigger"
  /\ runTask' = selectedTask
  /\ UNCHANGED <<avars, activeTab, refreshTrigger, runWait, resultReqs, reportReqs, nextId>>

\* error.message caught by handleRun
RunFailureMessage(o) == IF o = "http" THEN RunHttpMsg ELSE NetErrMsg

\* handleRun without its finally block: a failed trigger is caught and
\* shown, but setRunning(false) is not reached.
RunResponseNoFinally(o) ==
  /\ runReqs > 0
  /\ o \in Outcomes("run")
  /\ runReqs' = runReqs - 1
  /\ IF o = "ok"
       THEN /\ resultReqs' = resultReqs \cup {ResultReq(nextId, runTask)}
            /\ nextId' = nextId + 1
            /\ runPc' = "result"
            /\ runWait' = nextId
            /\ UNCHANGED <<result, running, runTask>>
       ELSE /\ result' = ErrorResult(RunFailureMessage(o))
            /\ runPc' = "idle"
            /\ runTask' = NoTask
            /\ UNCHANGED <<running, resultReqs, nextId, runWait>>
  /\ UNCHANGED <<avars, reportText, activeTab, refreshTrigger, runs, reportReqs, ops>>

\* handleRun after `await fetch(.../run)`: on 2xx go on to
\* `await fetchLatestResult()`; otherwise catch, then finally.
RunResponse(o) ==
  /\ runReqs > 0
  /\ o \in Outcomes("run")
  /\ runReqs' = runReqs - 1
  /\ IF o = "ok"
       THEN /\ resultReqs' = resultReqs \cup {ResultReq(nextId, runTask)}
            /\ nextId' = nextId + 1
            /\ runPc' = "result"
            /\ runWait' = nextId
            /\ UNCHANGED <<result, running, runTask>>
       ELSE /\ result' = ErrorResult(RunFailureMessage(o))
            /\ running' = FALSE
            /\ runPc' = "idle"
            /\ runTask' = NoTask
            /\ UNCHANGED <<resultReqs, nextId, runWait>>
  /\ UNCHANGED <<avars, reportText, activeTab, refreshTrigger, runs, reportReqs, ops>>

\* disabled={!result} / disabled={!reportText} on the tab buttons
TabEnabled(tab) ==
  CASE tab = "details" -> TRUE
    [] tab = "result" -> result # NoResult
    [] tab = "report" -> reportText # NoReport

\* click on a tab button
SetActiveTab(tab) ==
  /\ tdMounted
  /\ tab \in Tabs
  /\ TabEnabled(tab)
  /\ activeTab # tab
  /\ activeTab' = tab
  /\ UNCHANGED <<avars, result, reportText, running, refreshTrigger, runPc, runTask,
                 runWait, runs, runReqs, resultReqs, reportReqs, nextId, ops>>

\* ---------------------------------------------------------- BatchControl
\* status?.is_running
IsRunning == status.present /\ status.is_running

\* Request ids still owed to continuations that are already under way:
\* handleStart's and each handleStop's follow-up fetchStatus().
BReserved ==
  (IF startPc = "start" THEN 1 ELSE 0)
  + Cardinality({r \in binflight : r.kind = "stop"})

BRoom(k) == (nextBid - 1) + k + BReserved <= MaxBReq

\* The backend handles a request: start and stop change the batch job, a
\* status request is answered with the job's state at that moment.
SrvHandle(r) ==
  /\ r \in binflight
  /\ ~r.handled
  /\ srv' = CASE r.kind = "start" ->
                   IF srv.is_running THEN srv
                   ELSE [srv EXCEPT !.is_running = TRUE, !.processed = 0]
              [] r.kind = "stop" -> [srv EXCEPT !.is_running = FALSE]
              [] OTHER -> srv
  /\ binflight' = (binflight \ {r}) \cup {[r EXCEPT !.handled = TRUE, !.data = srv]}
  /\ UNCHANGED <<status, loading, bcMounted, interval, startPc, startWait, nextBid,
                 stoppedSeen, startAcked, pollFailed>>

\* The backend's batch processes one more task; the batch ends with the last.
SrvProgress ==
  /\ srv.is_running
  /\ srv.processed < srv.total
  /\ srv' = [srv EXCEPT !.processed = srv.processed + 1,
                        !.is_running = (srv.processed + 1 < srv.total)]
  /\ UNCHANGED <<status, loading, bcMounted, interval, startPc, startWait, binflight,
                 nextBid, stoppedSeen, startAcked, pollFailed>>

\* How a BatchControl request can settle: 2xx needs the backend to have
\* handled it; a non-2xx reply or a rejected fetch() can come at any time.
BOutcomes(r) == IF r.handled THEN {"ok", "http", "neterr"} ELSE {"http", "neterr"}

\* the interval callback: if (status?.is_running) fetchStatus()
TickPolls == interval /\ IsRunning

\* One firing of the 2000 ms timer that calls fetchStatus().
Tick ==
  /\ TickPolls
  /\ BRoom(1)
  /\ binflight' = binflight \cup {BReq(nextBid, "status", "tick")}
  /\ nextBid' = nextBid + 1
  /\ UNCHANGED <<status, loading, bcMounted, interval, startPc, startWait, stoppedSeen, startAcked, pollFailed, srv>>

\* fetchStatus whose failure path empties the held status.
ApplyStatusOrClear(r, o, cur) ==
  IF o = "ok" /\ bcMounted THEN [r.data EXCEPT !.present = TRUE] ELSE NoStatus

\* fetchStatus after the await: setStatus(data) on a 2xx reply.  A state
\* update on an unmounted component is dropped.
ApplyStatus(r, o, cur) ==
  IF o = "ok" /\ bcMounted THEN [r.data EXCEPT !.present = TRUE] ELSE cur

\* A status reply is delivered.  When is_running changed, the polling effect
\* is cleaned up and run again, which leaves a live timer.  If handleStart
\* awaits this fetchStatus(), handleStart finishes: finally setLoading(false).
StatusResponse(r, o) ==
  /\ r \in binflight
  /\ r.kind = "status"
  /\ o \in BOutcomes(r)
  /\ status' = ApplyStatus(r, o, status)
  /\ interval' = bcMounted
  /\ binflight' = binflight \ {r}
  /\ stoppedSeen' = IF o = "ok" /\ bcMounted /\ ~r.data.is_running THEN TRUE ELSE stoppedSeen
  /\ IF startPc = "status" /\ startWait = r.id
       THEN /\ loading' = FALSE
            /\ startPc' = "idle"
            /\ startWait' = 0
       ELSE UNCHANGED <<loading, startPc, startWait>>
  /\ pollFailed' = (r.src = "tick" /\ o # "ok" /\ IsRunning /\ bcMounted)
  /\ UNCHANGED <<bcMounted, nextBid, startAcked, srv>>

StartButtonAlwaysEnabled == TRUE
\* <button className="start-button" ... disabled={loading}>
StartButtonEnabled == ~loading

\* handleStart up to its first await; the start button is rendered only
\* when status?.is_running is falsy.
HandleStart ==
  /\ bcMounted
  /\ ~IsRunning
  /\ StartButtonEnabled
  /\ BRoom(2)
  /\ loading' = TRUE
  /\ binflight' = binflight \cup {BReq(nextBid, "start", "start")}
  /\ nextBid' = nextBid + 1
  /\ startPc' = "start"
  /\ startWait' = nextBid
  /\ startAcked' = FALSE
  /\ UNCHANGED <<status, bcMounted, interval, stoppedSeen, pollFailed, srv>>

\* handleStart after `await fetch(.../batch/start)`: on 2xx
\* `await fetchStatus()`, otherwise finally setLoading(false).
StartResponse(r, o) ==
  /\ r \in binflight
  /\ r.kind = "start"
  /\ o \in BOutcomes(r)
  /\ IF o = "ok"
       THEN /\ binflight' = (binflight \ {r}) \cup {BReq(nextBid, "status", "start")}
            /\ nextBid' = nextBid + 1
            /\ startPc' = "status"
            /\ startWait' = nextBid
            /\ stoppedSeen' = FALSE
            /\ startAcked' = TRUE
            /\ UNCHANGED loading
       ELSE /\ binflight' = binflight \ {r}
            /\ loading' = FALSE
            /\ startPc' = "idle"
            /\ startWait' = 0
            /\ UNCHANGED <<nextBid, stoppedSeen, startAcked>>
  /\ UNCHANGED <<status, bcMounted, interval, pollFailed, srv>>

\* handleStop that also marks the held status as stopped itself, without
\* waiting for a payload.
HandleStopLocal ==
  /\ bcMounted
  /\ IsRunning
  /\ BRoom(2)
  /\ status' = [status EXCEPT !.is_running = FALSE]
  /\ binflight' = binflight \cup {BReq(nextBid, "stop", "stop")}
  /\ nextBid' = nextBid + 1
  /\ UNCHANGED <<loading, bcMounted, interval, startPc, startWait, stoppedSeen, startAcked, pollFailed, srv>>

\* handleStop up to its await; the stop button is rendered only when
\* status?.is_running is truthy.
HandleStop ==
  /\ bcMounted
  /\ IsRunning
  /\ BRoom(2)
  /\ binflight' = binflight \cup {BReq(nextBid, "stop", "stop")}
  /\ nextBid' = nextBid + 1
  /\ UNCHANGED <<status, loading, bcMounted, interval, startPc, startWait, stoppedSeen, startAcked, pollFailed, srv>>

\* handleStop after the await: on 2xx `await fetchStatus()`.
StopResponse(r, o) ==
  /\ r \in binflight
  /\ r.kind = "stop"
  /\ o \in BOutcomes(r)
  /\ IF o = "ok"
       THEN /\ binflight' = (binflight \ {r}) \cup {BReq(nextBid, "status", "stop")}
            /\ nextBid' = nextBid + 1
       ELSE /\ binflight' = binflight \ {r}
            /\ UNCHANGED nextBid
  /\ UNCHANGED <<status, loading, bcMounted, interval, startPc, startWait, stoppedSeen, startAcked, pollFailed, srv>>

UnmountLeavesTimer ==
  /\ bcMounted
  /\ bcMounted' = FALSE
  /\ UNCHANGED <<status, loading, interval, startPc, startWait, binflight, nextBid,
                 stoppedSeen, startAcked, pollFailed, srv>>

\* BatchControl is torn down: the polling effect's cleanup runs
\* clearInterval(interval).
Unmount ==
  /\ bcMounted
  /\ bcMounted' = FALSE
  /\ interval' = FALSE
  /\ UNCHANGED <<status, loading, startPc, startWait, binflight, nextBid, stoppedSeen, startAcked, pollFailed, srv>>

\* ------------------------------------------------------------ PatchViewer
\* Characters of a patch text: the ones the classifier looks at, one other
\* character, and the line separator.
NL == "\n"
Chars == {"@", "+", "-", "x", NL}

\* Texts of at most n characters.
Texts(n) == UNION {[1..k -> Chars] : k \in 0..n}

\* The patch prop: null / undefined, or a string.
NoPatch == [present |-> FALSE, text |-> <<>>]
Patches == {NoPatch} \cup {[present |-> TRUE, text |-> s] : s \in Texts(MaxPatchLen)}

\* !patch: null, undefined and the empty string are falsy
Falsy(p) == ~p.present \/ p.text = <<>>

\* line.startsWith(prefix)
StartsWith(line, prefix) ==
  /\ Len(line) >= Len(prefix)
  /\ SubSeq(line, 1, Len(prefix)) = prefix

\* The if / else-if chain with the '+' test ahead of the '+++' / '---' test.
ClassNameAddFirst(line) ==
  IF StartsWith(line, <<"@", "@">>) THEN "diff-line diff-header"
  ELSE IF StartsWith(line, <<"+">>) THEN "diff-line diff-add"
  ELSE IF StartsWith(line, <<"-">>) THEN "diff-line diff-remove"
  ELSE IF StartsWith(line, <<"+", "+", "+">>) \/ StartsWith(line, <<"-", "-", "-">>)
    THEN "diff-line diff-file-header"
  ELSE "diff-line"

\* className of one line: "diff-line" plus what the first matching branch of
\* the if / else-if chain appends.
ClassName(line) ==
  IF StartsWith(line, <<"@", "@">>) THEN "diff-line diff-header"
  ELSE IF StartsWith(line, <<"+", "+", "+">>) \/ StartsWith(line, <<"-", "-", "-">>)
    THEN "diff-line diff-file-header"
  ELSE IF StartsWith(line, <<"+">>) THEN "diff-line diff-add"
  ELSE IF StartsWith(line, <<"-">>) THEN "diff-line diff-remove"
  ELSE "diff-line"

\* A split that leaves out empty segments.
RECURSIVE SplitSkipEmpty(_)
SplitSkipEmpty(s) ==
  IF \E i \in 1..Len(s) : s[i] = NL
    THEN LET i == CHOOSE k \in 1..Len(s) : s[k] = NL /\ \A j \in 1..(k - 1) : s[j] # NL
             first == SubSeq(s, 1, i - 1)
             rest == SplitSkipEmpty(SubSeq(s, i + 1, Len(s)))
         IN  IF first = <<>> THEN rest ELSE <<first>> \o rest
    ELSE IF s = <<>> THEN <<>> ELSE <<s>>

\* patch.split('\n'): the segments between the separators, empty ones
\* included; a text without separator is its own single segment.
RECURSIVE Split(_)
Split(s) ==
  IF \E i \in 1..Len(s) : s[i] = NL
    THEN LET i == CHOOSE k \in 1..Len(s) : s[k] = NL /\ \A j \in 1..(k - 1) : s[j] # NL
         IN  <<SubSeq(s, 1, i - 1)>> \o Split(SubSeq(s, i + 1, Len(s)))
    ELSE <<s>>

NotRendered == [kind |-> "pending", lines |-> <<>>]

\* What PatchViewer returns: the "no-patch" element, or the
\* "patch-container" with one <div key className>{line}</div> per segment.
PatchViewer(p) ==
  IF Falsy(p) THEN [kind |-> "no-patch", lines |-> <<>>]
  ELSE LET segs == Split(p.text) IN
       [kind |-> "patch-container",
        lines |-> [i \in 1..Len(segs) |->
                     [key |-> i - 1, className |-> ClassName(segs[i]), line |-> segs[i]]]]

\* PatchViewer is given no patch until one is drawn.
InitPatch ==
  /\ patch = NoPatch
  /\ rendered = NotRendered

\* React renders PatchViewer with the patch prop.
Render ==
  /\ rendered = NotRendered
  /\ rendered' = PatchViewer(patch)
  /\ UNCHANGED patch

Select == \E t \in Tasks : HandleTaskSelect(t)
DetailArrives == \E t \in Tasks : \E o \in Outcomes("detail") : DetailResponse(t, o)
ResultArrives == \E r \in resultReqs : \E o \in Outcomes("result") : ResultResponse(r, o)
ReportArrives == \E e \in Epochs : \E o \in Outcomes("report") : ReportResponse(e, o)
RunReportArrives == \E o \in Outcomes("report") : RunReportResponse(o)
RunArrives == \E o \in Outcomes("run") : RunResponse(o)
TabClick == \E tab \in Tabs : SetActiveTab(tab)
BackendHandles == \E r \in binflight : SrvHandle(r)
StatusArrives == \E r \in binflight : \E o \in BOutcomes(r) : StatusResponse(r, o)
StartArrives == \E r \in binflight : \E o \in BOutcomes(r) : StartResponse(r, o)
StopArrives == \E r \in binflight : \E o \in BOutcomes(r) : StopResponse(r, o)

Init == InitTask /\ InitBatch /\ InitPatch

NextTask ==
  \/ Select /\ UNCHANGED <<bvars, pvars>>
  \/ DetailArrives /\ UNCHANGED <<bvars, pvars>>
  \/ ResultArrives /\ UNCHANGED <<bvars, pvars>>
  \/ ReportArrives /\ UNCHANGED <<bvars, pvars>>
  \/ RunReportArrives /\ UNCHANGED <<bvars, pvars>>
  \/ RunArrives /\ UNCHANGED <<bvars, pvars>>
  \/ Refresh /\ UNCHANGED <<bvars, pvars>>
  \/ HandleRun /\ UNCHANGED <<bvars, pvars>>
  \/ TabClick /\ UNCHANGED <<bvars, pvars>>

NextBatch ==
  \/ BackendHandles /\ UNCHANGED <<tvars, pvars>>
  \/ SrvProgress /\ UNCHANGED <<tvars, pvars>>
  \/ Tick /\ UNCHANGED <<tvars, pvars>>
  \/ StatusArrives /\ UNCHANGED <<tvars, pvars>>
  \/ HandleStart /\ UNCHANGED <<tvars, pvars>>
  \/ StartArrives /\ UNCHANGED <<tvars, pvars>>
  \/ HandleStop /\ UNCHANGED <<tvars, pvars>>
  \/ StopArrives /\ UNCHANGED <<tvars, pvars>>
  \/ Unmount /\ UNCHANGED <<tvars, pvars>>

Next == NextTask \/ NextBatch

\* App, TaskDetail and BatchControl together
Spec == Init /\ [][Next]_vars

\* App and TaskDetail alone, beside an idle backend batch
InitIdleBackend == Init /\ ~srv.is_running

TaskSpec == InitIdleBackend /\ [][NextTask]_vars

\* Ids a /results request can carry: a user operation issues at most two.
ResultIds == 1..(2 * MaxOps)

\* The /results request with this id settles.
ResultSettles(id) ==
  \E r \in resultReqs : r.id = id /\ \E o \in Outcomes("result") : ResultResponse(r, o)

\* App and TaskDetail where every request that handleRun awaits eventually
\* settles, with success or failure: fetch() resolves or rejects.
TaskLiveSpec ==
  /\ TaskSpec
  /\ WF_vars(RunArrives /\ UNCHANGED <<bvars, pvars>>)
  /\ \A id \in ResultIds : WF_vars(ResultSettles(id) /\ UNCHANGED <<bvars, pvars>>)
  /\ WF_vars(RunReportArrives /\ UNCHANGED <<bvars, pvars>>)

\* BatchControl and the backend's batch job alone
BatchSpec == Init /\ [][NextBatch]_vars

\* Ids a BatchControl request can carry.
BReqIds == 1..MaxBReq

\* The BatchControl request with this id settles.
BatchSettles(id) ==
  \E r \in binflight :
     /\ r.id = id
     /\ \E o \in BOutcomes(r) :
          StatusResponse(r, o) \/ StartResponse(r, o) \/ StopResponse(r, o)

\* BatchControl where every request eventually settles, with success or
\* failure: fetch() resolves or rejects.
BatchLiveSpec ==
  /\ BatchSpec
  /\ \A id \in BReqIds : WF_vars(BatchSettles(id) /\ UNCHANGED <<tvars, pvars>>)

\* App as composed in the source: <BatchControl /> takes no props and
\* <TaskDetail task taskDetail onRun /> is given no refreshTrigger, so the
\* refresh effect never fetches.  The user opens one task beside the batch
\* panel.
NextApp ==
  \/ ops = 0 /\ Select /\ UNCHANGED <<bvars, pvars>>
  \/ DetailArrives /\ UNCHANGED <<bvars, pvars>>
  \/ ResultArrives /\ UNCHANGED <<bvars, pvars>>
  \/ ReportArrives /\ UNCHANGED <<bvars, pvars>>
  \/ NextBatch

AppSpec == Init /\ [][NextApp]_vars

\* PatchViewer alone, given any patch prop
InitDiff ==
  /\ InitTask
  /\ InitBatch
  /\ ~srv.is_running
  /\ patch \in Patches
  /\ rendered = NotRendered

NextDiff == Render /\ UNCHANGED <<tvars, bvars>>

DiffSpec == InitDiff /\ [][NextDiff]_vars

\* ------------------------------------------------------------- properties

\* C1: stale-result rejection: a RunResult delivered by a /results fetch is
\* displayed only while the task it was fetched for is the selected task; the
\* reply to a fetch issued for a task that has since been deselected is never
\* displayed.
StaleResultRejected == result.kind = "fetched" => result.task = selectedTask

\* C2: stale-detail rejection: whenever the detail view is rendered (a task is
\* selected and a TaskDetail is held), the held TaskDetail was fetched for the
\* selected task.
StaleDetailRejected == tdMounted => taskDetail = selectedTask

\* C3: tab/data invariant: the view is on the result tab only if a RunResult is
\* held and on the report tab only if a ReportText is held.
TabHasData ==
  /\ activeTab = "result" => result # NoResult
  /\ activeTab = "report" => reportText # NoReport

\* C4: at most one run in flight: at most one POST /run is outstanding, the
\* busy flag is true exactly while a handleRun call has not finished, and no
\* POST /run is issued while the busy flag is true.
AtMostOneRun ==
  /\ [](/\ runReqs <= 1
        /\ running <=> runPc # "idle"
        /\ runReqs = 1 <=> runPc = "trigger")
  /\ [][runReqs' > runReqs => ~running]_vars

\* C4 witness: a run is in flight, its POST /run outstanding, and the selection
\* has moved to another task since it was triggered.
RunAcrossSelection == running /\ runReqs = 1 /\ selectedTask # runTask

\* C5: run-trigger failure: when the POST /run reply is a failure, the held
\* RunResult becomes {status: "error", detail: <failure message>}, the run
\* ends without issuing a /results fetch, a /batch/report fetch or another
\* POST /run, and BatchStatus is unchanged.
RunTriggerFailure ==
  [][\A o \in {"http", "neterr"} :
       RunResponse(o) =>
         /\ result'.kind = "error"
         /\ result'.detail = (IF o = "http" THEN "Failed to run task" ELSE NetErrMsg)
         /\ resultReqs' = resultReqs
         /\ reportReqs' = reportReqs
         /\ runReqs' = 0
         /\ runPc' = "idle"
         /\ ~running'
         /\ status' = status]_vars

\* C5 witness: a failed trigger has left its synthesized error result on
\* display with the run over.
RunErrorShown == result.kind = "error" /\ ~running /\ runPc = "idle"

\* This step issues a timer-driven GET /batch/status.
TickIssued == \E r \in binflight' : r.src = "tick" /\ r.id = nextBid /\ nextBid' > nextBid

\* C6: sequential poll ticks: at most one GET /batch/status is outstanding.
SequentialPolls == Cardinality({r \in binflight : r.kind = "status"}) <= 1

\* C7: polling termination: once a status payload with is_running=false has
\* been applied, the timer issues no status request until a start request has
\* been acknowledged.
PollingTerminates ==
  [][TickIssued => ~stoppedSeen]_vars

\* C8: teardown stops polling: once BatchControl is torn down its timer is
\* cancelled and no timer tick issues a status request.
TeardownStopsPolling ==
  /\ [](~bcMounted => ~interval)
  /\ [][TickIssued => bcMounted]_vars

\* C8 witness: torn down while Running, with a request still in flight.
TornDownWhileRunning == ~bcMounted /\ IsRunning /\ binflight # {}

\* C9: select clears prior data: a selection that changes the task shown by
\* TaskDetail leaves no RunResult and no ReportText held, puts the view on
\* the details tab, and issues a /results fetch for the new task and a
\* /batch/report fetch.
SelectClearsPriorData ==
  [][(tdMounted /\ selectedTask' # selectedTask) =>
       /\ result' = NoResult
       /\ reportText' = NoReport
       /\ activeTab' = "details"
       /\ \E r \in resultReqs' \ resultReqs : r.task = selectedTask'
       /\ reportReqs' # reportReqs]_vars

\* C10: run clears before issuing: while the POST /run of a run is outstanding
\* the store holds no RunResult and no ReportText that came from a request
\* issued before handleRun was called.
RunShowsNoStaleContent ==
  runReqs > 0 =>
    /\ result = NoResult \/ (result.kind = "fetched" /\ result.epoch >= runs)
    /\ reportText = NoReport \/ reportText.epoch >= runs

\* Ids of the /results requests in S.
ReqIds(S) == {r.id : r \in S}

\* C11: run follow-up ordering: the follow-up /results fetch is issued by the
\* step that settles POST /run, the follow-up /batch/report fetch by the step
\* that settles that /results fetch, and a successful run ends (view switched
\* to 'result') only from awaiting the report with neither the trigger nor
\* the follow-up /results fetch outstanding; while POST /run is outstanding
\* the run has issued no follow-up.
RunFollowUpOrdering ==
  /\ [](/\ runPc = "trigger" => (runReqs = 1 /\ runWait = 0)
        /\ runPc = "result" => (runReqs = 0 /\ \E r \in resultReqs :
                                                  r.id = runWait /\ r.task = runTask)
        /\ runPc = "report" => (runReqs = 0 /\ runWait = 0))
  /\ [][(runPc # "result" /\ runPc' = "result") =>
          (runPc = "trigger" /\ runReqs = 1 /\ runReqs' = 0)]_vars
  /\ [][(runPc # "report" /\ runPc' = "report") =>
          (runPc = "result" /\ runWait \in ReqIds(resultReqs)
           /\ runWait \notin ReqIds(resultReqs'))]_vars
  /\ [][(running /\ ~running') =>
          \/ runPc = "report" /\ runReqs = 0 /\ activeTab' = "result"
          \/ runPc = "trigger" /\ result'.kind = "error" /\ activeTab' = activeTab]_vars

\* C11 witness: a run whose trigger and follow-up /results fetch have both
\* settled is awaiting its report fetch.
RunAwaitsReport == running /\ runPc = "report" /\ runReqs = 0

\* C12: most-recent-fetch-wins: while task T stays selected, a /results
\* reply for T never replaces the displayed payload of a later-issued
\* /results request for T.
MostRecentFetchWins ==
  [][(/\ selectedTask' = selectedTask
      /\ result.kind = "fetched" /\ result.task = selectedTask
      /\ result'.kind = "fetched" /\ result'.task = selectedTask)
       => result'.req >= result.req]_vars

\* C19: stale run outcome is dropped: when a run triggered under task A ends
\* while another task is selected, the displayed RunResult and the view mode
\* are left as they were.
StaleRunOutcomeDropped ==
  [][(running /\ ~running' /\ runTask # selectedTask)
       => (result' = result /\ activeTab' = activeTab)]_vars

\* C20: absent result leaves the store unchanged: a step that modifies the
\* held RunResult is never the delivery of a /results reply that is
\* {result: null}, non-2xx or a network failure; and while no run has been
\* triggered, an empty store becomes non-empty (or the result tab enabled)
\* only by the delivery of a 2xx reply carrying a result.
AbsentResultKeepsStore ==
  /\ [][result' # result =>
          ~\E r \in resultReqs : \E o \in {"null", "http", "neterr"} :
              ResultResponse(r, o)]_vars
  /\ [][(/\ result = NoResult
         /\ runs' = 0
         /\ (result' # NoResult \/ TabEnabled("result")'))
          => \E r \in resultReqs : ResultResponse(r, "ok")]_vars

\* C20 witness: a task is selected, no run was triggered, its one /results
\* request has been answered, and the store is still empty.
AbsentResultSeen ==
  /\ tdMounted
  /\ runs = 0
  /\ nextId = 2
  /\ resultReqs = {}
  /\ result = NoResult
  /\ ~TabEnabled("result")

StartEntersRunning ==
  (bcMounted /\ startAcked /\ srv.is_running /\ binflight = {}) => IsRunning

\* C14: poll failure resilience: a status reply that is a network error or
\* non-2xx leaves the held BatchStatus exactly unchanged, and if timer ticks
\* polled before it they still poll after it.
PollFailureResilience ==
  [][\A r \in binflight : \A o \in {"http", "neterr"} :
       StatusResponse(r, o) => (status' = status /\ (TickPolls => TickPolls'))]_vars

\* C14 witness: a timer poll issued by a Running poller has failed and timer
\* ticks still poll.
FailedPollStillPolling == pollFailed /\ TickPolls

\* C15: refresh signal: a batch run updates the open task without
\* re-selection: whenever the batch panel learns, while a task is open, that
\* the batch has processed more tasks, the refresh signal is raised and the
\* result fetch for the selected task is issued again.
BatchRefreshesOpenTask ==
  [][(/\ tdMounted
      /\ status.present /\ status'.present
      /\ status'.processed > status.processed)
       => (/\ refreshTrigger' > refreshTrigger
           /\ \E r \in resultReqs' \ resultReqs : r.task = selectedTask)]_vars

\* Character c stands at position i of line l.
Has(l, i, c) == Len(l) >= i /\ l[i] = c

\* C16: diff classification precedence: every rendered line is a header iff
\* it starts with '@@', a file-header iff it starts with '+++' or '---' (and
\* then is neither add nor remove), an add iff it starts with '+' but not
\* '+++', a remove iff it starts with '-' but not '---', and context
\* otherwise; and equal lines get equal kinds wherever they stand.
DiffClassification ==
  rendered.kind = "patch-container" =>
    \A i \in DOMAIN rendered.lines :
      LET l == rendered.lines[i].line
          c == rendered.lines[i].className
          at == Has(l, 1, "@") /\ Has(l, 2, "@")
          ppp == Has(l, 1, "+") /\ Has(l, 2, "+") /\ Has(l, 3, "+")
          mmm == Has(l, 1, "-") /\ Has(l, 2, "-") /\ Has(l, 3, "-")
      IN  /\ (c = "diff-line diff-header") <=> at
          /\ (c = "diff-line diff-file-header") <=> (ppp \/ mmm)
          /\ (c = "diff-line diff-add") <=> (Has(l, 1, "+") /\ ~ppp)
          /\ (c = "diff-line diff-remove") <=> (Has(l, 1, "-") /\ ~mmm)
          /\ (c = "diff-line") <=> (~at /\ ~Has(l, 1, "+") /\ ~Has(l, 1, "-"))
          /\ \A j \in DOMAIN rendered.lines :
               rendered.lines[j].line = l => rendered.lines[j].className = c

\* C16 witness: a rendered line starting with '+++' is a file-header, beside
\* a line starting with a single '+' that is an add.
FileHeaderBesideAdd ==
  /\ rendered.kind = "patch-container"
  /\ \E i, j \in DOMAIN rendered.lines :
       /\ rendered.lines[i].line = <<"+", "+", "+">>
       /\ rendered.lines[i].className = "diff-line diff-file-header"
       /\ rendered.lines[j].line = <<"+">>
       /\ rendered.lines[j].className = "diff-line diff-add"

\* The segments joined again with the separator between them.
RECURSIVE Join(_)
Join(segs) ==
  IF Len(segs) = 1 THEN segs[1]
  ELSE segs[1] \o <<NL>> \o Join(Tail(segs))

\* C17: diff output shape: for a non-empty patch text the output has one
\* line per newline-delimited segment (one more than there are separators),
\* in input order with keys 0, 1, ..., each line's content being its segment
\* (no separator inside, and the contents joined by separators give the text
\* back); for an empty or absent patch the output is the 'no patch' element.
DiffOutputShape ==
  rendered.kind # "pending" =>
    IF ~patch.present \/ Len(patch.text) = 0
      THEN rendered.kind = "no-patch"
      ELSE /\ rendered.kind = "patch-container"
           /\ Len(rendered.lines) =
                1 + Cardinality({i \in 1..Len(patch.text) : patch.text[i] = NL})
           /\ \A i \in DOMAIN rendered.lines :
                /\ rendered.lines[i].key = i - 1
                /\ \A k \in 1..Len(rendered.lines[i].line) :
                     rendered.lines[i].line[k] # NL
           /\ Join([i \in DOMAIN rendered.lines |-> rendered.lines[i].line]) = patch.text

\* C17 witness: a text with two adjacent separators is rendered as three
\* lines, the middle one empty.
EmptySegmentRendered ==
  /\ rendered.kind = "patch-container"
  /\ Len(rendered.lines) = 3
  /\ rendered.lines[2].line = <<>>
  /\ rendered.lines[1].line # <<>>

\* C21: run always terminates: when every request settles, a busy TaskDetail
\* always has a handleRun suspended at one of its awaits, and every run
\* eventually finishes with the busy flag false, whatever the outcomes of the
\* trigger and of the follow-up fetches.
RunTerminates ==
  /\ [](running => runPc \in {"trigger", "result", "report"})
  /\ [](~running => runPc = "idle")
  /\ (running ~> ~running)

\* C21 witness: a run whose trigger succeeded has finished (view switched to
\* 'result', busy flag false) although its follow-up result fetch brought no
\* result.
RunOverAfterFailedFollowUp ==
  /\ runs > 0
  /\ ~running
  /\ runPc = "idle"
  /\ activeTab = "result"
  /\ result = NoResult
  /\ resultReqs = {}

\* Requests of handleStart still outstanding: POST /batch/start, or the
\* fetchStatus() it awaits after a 2xx.
StartInFlight == {r \in binflight : r.kind = "start" \/ r.src = "start"}

\* C22: at most one start in flight: the loading flag is true exactly while
\* handleStart has its start request or its follow-up status fetch
\* outstanding, start is only triggered with the flag false, at most one
\* POST /batch/start is outstanding, and when every request settles the flag
\* is eventually false again.
AtMostOneStart ==
  /\ [](/\ Cardinality({r \in binflight : r.kind = "start"}) <= 1
        /\ Cardinality(StartInFlight) <= 1
        /\ loading <=> (StartInFlight # {})
        /\ loading => \E r \in StartInFlight :
                         /\ r.id = startWait
                         /\ r.kind = (IF startPc = "start" THEN "start" ELSE "status"))
  /\ [][HandleStart => (~loading /\ loading')]_vars
  /\ (loading ~> ~loading)

\* C22 witness: a start was acknowledged, its follow-up status fetch has
\* settled too, and the start control is enabled again.
StartSettled ==
  /\ startAcked
  /\ ~loading
  /\ StartInFlight = {}
  /\ StartButtonEnabled

====
